---- MODULE Spec2Model ----
(***************************************************************************)
(* A model of python-alp: the Keras adaptor (train, fit, predict and the   *)
(* COMPILED_MODELS cache), the command line application, the database      *)
(* configuration bootstrap and the sliced utility.                         *)
(*                                                                         *)
(* The subsystems share no state.  Each one has its own next-state         *)
(* relation and its own specification over the same variables; the         *)
(* variables of the other subsystems stay at their initial values.         *)
(***************************************************************************)
EXTENDS Integers, Sequences, FiniteSets, TLC

(***************************************************************************)
(* Bounds of the model.                                                    *)
(***************************************************************************)
\* number of predict calls made in one process; they may overlap in any way
NCalls == 2
\* number of distinct model identifiers
NMods == 2

\* number of fit invocations in one run; they may overlap in any way
NFits == 2
\* chunks of data handed to train, and epochs fitted on one chunk
MaxChunks == 2
MaxEpochs == 1
\* sliced: the longest first array, and the largest nb_train, nb_test, offset
MaxLen == 6
MaxNb == 2
\* the longest argument list handed to the command line application
MaxArgs == 4

Procs == 1..NCalls
ModIds == 1..NMods

(***************************************************************************)
(* State                                                                   *)
(***************************************************************************)
\* predict and COMPILED_MODELS (keras_backend.py).  The predict calls are
\* numbered in the order they begin and the model ids in the order they are
\* first used; the model and the prediction function
\* that call p creates are both named p.
VARIABLES
    COMPILED_MODELS, \* mod_id -> entry; entry.present is `mod_id in COMPILED_MODELS`,
                     \* entry.pred / entry.model are the values under 'pred' / 'model'
                     \* (0: the key is not in the entry's dict)
    pc,              \* per call: the line the call is about to execute
    mod_id,          \* per call: model['mod_id']
    class_name,      \* per call: model['model_arch']['config'].get('class_name')
    path,            \* per call: the branch taken at line 335
    model_k,         \* per call: local model_k (0: unbound)
    pred_function,   \* per call: local pred_function (0: unbound)
    exc,             \* per call: the exception that left predict, with its line
    called,          \* per call: the prediction function it called (0: none)
    did              \* per call: what it has done so far, among "build" (line 346),
                     \* "load" (351), "compile" (354) and "store" (355-357)

varsPredict == <<COMPILED_MODELS, pc, mod_id, class_name, path, model_k,
                 pred_function, exc, called, did>>

\* train (keras_backend.py)
VARIABLES
    trainIn,         \* the arguments of the last train call
    trainOut         \* what it returned or raised

varsTrain == <<trainIn, trainOut>>

\* fit and the model records (keras_backend.py)
VARIABLES
    records,         \* the documents of the models collection, by _id; a fit
                     \* invocation f inserts the document f
    fitPc,           \* per invocation: the line it is about to execute
    fitFirst,        \* per invocation: the exception first raised inside the try
    fitOut,          \* per invocation: the exception that left fit
    fitReturned      \* per invocation: whether fit returned results

varsFit == <<records, fitPc, fitFirst, fitOut, fitReturned>>

\* sliced (appcom/utils.py)
VARIABLES
    slicedIn,        \* the arguments of the last sliced call
    slicedOut        \* what it returned or raised

varsSliced == <<slicedIn, slicedOut>>

\* the database configuration bootstrap (dbbackend/__init__.py)
VARIABLES
    cfgFile,         \* alpdb.json: whether it exists and, per key, its value
                     \* ("absent": the key is not in the file)
    testMode,        \* whether the environment sets TEST_MODE=ON
    dbState,         \* "unloaded", "loaded" or "failed": the import of alp.dbbackend
    dbSettings       \* the module's _db_engine, _host_adress, ... once set

varsDb == <<cfgFile, testMode, dbState, dbSettings>>

\* the command line application (cli.py)
VARIABLES
    cliCall,         \* the last call: the function and its arguments
    cliOut           \* how it ended

varsCli == <<cliCall, cliOut>>

vars == <<varsPredict, varsTrain, varsFit, varsSliced, varsDb, varsCli>>

notPredict == <<varsTrain, varsFit, varsSliced, varsDb, varsCli>>
notTrain == <<varsPredict, varsFit, varsSliced, varsDb, varsCli>>
notFit == <<varsPredict, varsTrain, varsSliced, varsDb, varsCli>>
notSliced == <<varsPredict, varsTrain, varsFit, varsDb, varsCli>>
notDb == <<varsPredict, varsTrain, varsFit, varsSliced, varsCli>>
notCli == <<varsPredict, varsTrain, varsFit, varsSliced, varsDb>>

(***************************************************************************)
(* predict and COMPILED_MODELS (keras_backend.py)                          *)
(***************************************************************************)
ClassNames == {"Graph", "Sequential", "Model", "Dense"}
SupportedNames == {"Graph", "Sequential", "Model"}
DataKinds == {"dict", "list", "array"}

NoExc == [type |-> "none", line |-> 0]
Raise(t, l) == [type |-> t, line |-> l]
NoEntry == [present |-> FALSE, pred |-> 0, model |-> 0]

\* what the external calls of the cache-miss branch can do: all succeed, or
\* model_from_dict_w_opt, load_weights or build_predict_func raises
BuildOutcomes == {"ok", "build_raises", "load_raises", "compile_raises"}

InitPredict ==
    /\ COMPILED_MODELS = [m \in ModIds |-> NoEntry]
    /\ pc = [p \in Procs |-> "idle"]
    /\ mod_id = [p \in Procs |-> 0]
    /\ class_name = [p \in Procs |-> "none"]
    /\ path = [p \in Procs |-> "none"]
    /\ model_k = [p \in Procs |-> 0]
    /\ pred_function = [p \in Procs |-> 0]
    /\ exc = [p \in Procs |-> NoExc]
    /\ called = [p \in Procs |-> 0]
    /\ did = [p \in Procs |-> {}]

\* mutant of PrepareData: the final else of the dispatch is missing, so an
\* unsupported class name falls through to the call of the prediction function
PrepareData_NoElse(name, kind) ==
    CASE name = "Sequential" -> IF kind = "list" THEN "list" ELSE "list_of_" \o kind
      [] OTHER -> "list"

\* lines 360-375: the shape of the data handed to the prediction function
PrepareData(name, kind) ==
    CASE name = "Graph" -> "list"
      [] name = "Sequential" -> IF kind = "list" THEN "list" ELSE "list_of_" \o kind
      [] name = "Model" -> "list"
      [] OTHER -> "NotImplementedError"

\* model['mod_id'] is an opaque key: the ids are numbered in the order the
\* calls first use them, so a call takes an id already used or the next one
FirstUseInOrder(m) == \A k \in 1..(m - 1) : \E q \in Procs : mod_id[q] = k

\* mutant of PredictStart: the membership test of line 335 never succeeds
PredictStart_AlwaysMiss(p) ==
    /\ pc[p] = "idle"
    /\ IF p = 1 THEN TRUE ELSE pc[p - 1] # "idle"
    /\ \E m \in ModIds, c \in ClassNames :
        /\ FirstUseInOrder(m)
        /\ mod_id' = [mod_id EXCEPT ![p] = m]
        /\ class_name' = [class_name EXCEPT ![p] = c]
        /\ path' = [path EXCEPT ![p] = "miss"]
        /\ pc' = [pc EXCEPT ![p] = "l346"]
    /\ UNCHANGED <<COMPILED_MODELS, model_k, pred_function, exc, called, did>>
    /\ UNCHANGED notPredict

\* lines 332-343: the call begins, tests the cache and, on a miss, pops the
\* 'optimizer' key of the model dict (KeyError when it is absent)
PredictStart(p) ==
    /\ pc[p] = "idle"
    /\ IF p = 1 THEN TRUE ELSE pc[p - 1] # "idle"
    /\ \E m \in ModIds, c \in ClassNames, hasOptimizer \in BOOLEAN :
        /\ FirstUseInOrder(m)
        /\ mod_id' = [mod_id EXCEPT ![p] = m]
        /\ class_name' = [class_name EXCEPT ![p] = c]
        /\ IF COMPILED_MODELS[m].present
             THEN /\ path' = [path EXCEPT ![p] = "hit"]
                  /\ pc' = [pc EXCEPT ![p] = "l336"]
                  /\ exc' = exc
             ELSE /\ path' = [path EXCEPT ![p] = "miss"]
                  /\ IF hasOptimizer
                       THEN /\ pc' = [pc EXCEPT ![p] = "l346"]
                            /\ exc' = exc
                       ELSE /\ pc' = [pc EXCEPT ![p] = "done"]
                            /\ exc' = [exc EXCEPT ![p] = Raise("KeyError", 343)]
    /\ UNCHANGED <<COMPILED_MODELS, model_k, pred_function, called,
                   did>>
    /\ UNCHANGED notPredict

\* line 336: pred_function = COMPILED_MODELS[mod_id]['pred']
PredictHitPred(p) ==
    /\ pc[p] = "l336"
    /\ IF COMPILED_MODELS[mod_id[p]].pred = 0
         THEN /\ pc' = [pc EXCEPT ![p] = "done"]
              /\ exc' = [exc EXCEPT ![p] = Raise("KeyError", 336)]
              /\ pred_function' = pred_function
         ELSE /\ pc' = [pc EXCEPT ![p] = "l337"]
              /\ pred_function' =
                     [pred_function EXCEPT ![p] = COMPILED_MODELS[mod_id[p]].pred]
              /\ exc' = exc
    /\ UNCHANGED <<COMPILED_MODELS, mod_id, class_name, path, model_k,
                   called, did>>
    /\ UNCHANGED notPredict

\* lines 337-338: model_k = COMPILED_MODELS[mod_id]['model']
PredictHitModel(p) ==
    /\ pc[p] = "l337"
    /\ IF COMPILED_MODELS[mod_id[p]].model = 0
         THEN /\ pc' = [pc EXCEPT ![p] = "done"]
              /\ exc' = [exc EXCEPT ![p] = Raise("KeyError", 337)]
              /\ model_k' = model_k
         ELSE /\ pc' = [pc EXCEPT ![p] = "l360"]
              /\ model_k' = [model_k EXCEPT ![p] = COMPILED_MODELS[mod_id[p]].model]
              /\ exc' = exc
    /\ UNCHANGED <<COMPILED_MODELS, mod_id, class_name, path,
                   pred_function, called, did>>
    /\ UNCHANGED notPredict

\* mutant of PredictBuild: a guarded build, which tests the cache again and
\* takes a complete entry stored meanwhile instead of building
PredictBuild_Guarded(p) ==
    /\ pc[p] = "l346"
    /\ LET e == COMPILED_MODELS[mod_id[p]]
           stored == e.present /\ e.pred # 0 /\ e.model # 0
       IN  /\ did' = [did EXCEPT ![p] =
                        IF stored THEN @ ELSE {"build", "load", "compile"}]
           /\ model_k' = [model_k EXCEPT ![p] = IF stored THEN e.model ELSE p]
           /\ pred_function' = [pred_function EXCEPT ![p] = IF stored THEN e.pred ELSE p]
           /\ pc' = [pc EXCEPT ![p] = IF stored THEN "l360" ELSE "l355"]
    /\ UNCHANGED <<COMPILED_MODELS, mod_id, class_name, path, exc, called>>
    /\ UNCHANGED notPredict

\* lines 346-354: build the model, load its weights, build the prediction
\* function; the objects created are named after the call
PredictBuild(p) ==
    /\ pc[p] = "l346"
    /\ \E out \in BuildOutcomes :
        LET built == out # "build_raises"
            loaded == out \in {"ok", "compile_raises"}
        IN  /\ did' = [did EXCEPT ![p] =
                         (IF built THEN {"build"} ELSE {})
                           \cup (IF loaded THEN {"load"} ELSE {})
                           \cup (IF out = "ok" THEN {"compile"} ELSE {})]
            /\ model_k' = [model_k EXCEPT ![p] = IF built THEN p ELSE @]
            /\ pred_function' =
                   [pred_function EXCEPT ![p] = IF out = "ok" THEN p ELSE @]
            /\ pc' = [pc EXCEPT ![p] = IF out = "ok" THEN "l355" ELSE "done"]
            /\ exc' = [exc EXCEPT ![p] =
                         CASE out = "ok" -> @
                           [] out = "build_raises" -> Raise("Exception", 346)
                           [] out = "load_raises" -> Raise("Exception", 351)
                           [] out = "compile_raises" -> Raise("Exception", 354)]
    /\ UNCHANGED <<COMPILED_MODELS, mod_id, class_name, path, called>>
    /\ UNCHANGED notPredict

\* mutant of PredictStoreEntry: the whole mapping is rebound to a dict that
\* holds the new entry only, which drops every other entry
PredictStoreEntry_Evicts(p) ==
    /\ pc[p] = "l355"
    /\ COMPILED_MODELS' = [m \in ModIds |->
                               IF m = mod_id[p]
                                 THEN [present |-> TRUE, pred |-> 0, model |-> 0]
                                 ELSE NoEntry]
    /\ pc' = [pc EXCEPT ![p] = "l356"]
    /\ did' = [did EXCEPT ![p] = @ \cup {"store"}]
    /\ UNCHANGED <<mod_id, class_name, path, model_k, pred_function, exc, called>>
    /\ UNCHANGED notPredict

\* line 355: COMPILED_MODELS[mod_id] = dict()
PredictStoreEntry(p) ==
    /\ pc[p] = "l355"
    /\ COMPILED_MODELS' = [COMPILED_MODELS EXCEPT ![mod_id[p]] =
                               [present |-> TRUE, pred |-> 0, model |-> 0]]
    /\ pc' = [pc EXCEPT ![p] = "l356"]
    /\ did' = [did EXCEPT ![p] = @ \cup {"store"}]
    /\ UNCHANGED <<mod_id, class_name, path, model_k, pred_function, exc,
                   called>>
    /\ UNCHANGED notPredict

\* line 356: COMPILED_MODELS[mod_id]['pred'] = pred_function
PredictStorePred(p) ==
    /\ pc[p] = "l356"
    /\ COMPILED_MODELS' = [COMPILED_MODELS EXCEPT ![mod_id[p]].pred = pred_function[p]]
    /\ pc' = [pc EXCEPT ![p] = "l357"]
    /\ did' = [did EXCEPT ![p] = @ \cup {"store"}]
    /\ UNCHANGED <<mod_id, class_name, path, model_k, pred_function, exc,
                   called>>
    /\ UNCHANGED notPredict

\* line 357: COMPILED_MODELS[mod_id]['model'] = model_k
PredictStoreModel(p) ==
    /\ pc[p] = "l357"
    /\ COMPILED_MODELS' = [COMPILED_MODELS EXCEPT ![mod_id[p]].model = model_k[p]]
    /\ pc' = [pc EXCEPT ![p] = "l360"]
    /\ did' = [did EXCEPT ![p] = @ \cup {"store"}]
    /\ UNCHANGED <<mod_id, class_name, path, model_k, pred_function, exc,
                   called>>
    /\ UNCHANGED notPredict

\* lines 360-376: dispatch on the class name, then call the prediction function
PredictDispatch(p) ==
    /\ pc[p] = "l360"
    /\ \E kind \in DataKinds :
        IF PrepareData(class_name[p], kind) = "NotImplementedError"
          THEN /\ exc' = [exc EXCEPT ![p] = Raise("NotImplementedError", 374)]
               /\ called' = called
          ELSE /\ called' = [called EXCEPT ![p] = pred_function[p]]
               /\ exc' = exc
    /\ pc' = [pc EXCEPT ![p] = "done"]
    /\ UNCHANGED <<COMPILED_MODELS, mod_id, class_name, path, model_k,
                   pred_function, did>>
    /\ UNCHANGED notPredict
PredictStep ==
    \E p \in Procs :
        \/ PredictStart(p)
        \/ PredictHitPred(p)
        \/ PredictHitModel(p)
        \/ PredictBuild(p)
        \/ PredictStoreEntry(p)
        \/ PredictStorePred(p)
        \/ PredictStoreModel(p)
        \/ PredictDispatch(p)

(***************************************************************************)
(* train (keras_backend.py)                                                *)
(***************************************************************************)
\* the metric values a history can hold
MetricValues == {1, 2}
SeqsUpTo(S, lo, hi) == UNION {[1..n -> S] : n \in lo..hi}
\* h.history of one model.fit call: one value per epoch and per name
Histories ==
    UNION {[loss : [1..n -> MetricValues], val_loss : [1..n -> MetricValues]] :
               n \in 0..MaxEpochs}
\* mod_name: model.__class__.__name__; chunks: the histories model.fit returns
\* for the pairs of zip(data, data_val), in order; lenData: len(data), which
\* exceeds the number of pairs when data_val is the shorter list; fitOk: whether
\* model.fit returns
TrainInputs ==
    [mod_name : ClassNames,
     chunks : SeqsUpTo(Histories, 0, MaxChunks),
     extraData : {0, 1},
     fitOk : BOOLEAN]
NoTrain == [raised |-> "none", line |-> 0, loss |-> <<>>, val_loss |-> <<>>, iter |-> 0]

RECURSIVE ConcatHistory(_, _)
\* the += of lines 229 and 243 over the chunks: the histories named `name`
\* of the chunks, one after the other
ConcatHistory(chunks, name) ==
    IF chunks = <<>> THEN <<>>
    ELSE LET h == Head(chunks)
         IN  (IF name = "loss" THEN h.loss ELSE h.val_loss)
                 \o ConcatHistory(Tail(chunks), name)

\* lines 207-249, for the single metric name 'loss'.  `is` of lines 222 and
\* 233 compares two interned identifier strings and is modelled as equality.
Train(inp) ==
    LET n == Len(inp.chunks)
        lenData == n + inp.extraData
    IN  IF inp.mod_name \notin {"Graph", "Sequential", "Model"}
          THEN [NoTrain EXCEPT !.raised = "NotImplementedError", !.line = 247]
        ELSE IF n >= 1 /\ ~inp.fitOk
          THEN [NoTrain EXCEPT !.raised = "Exception",
                               !.line = IF inp.mod_name = "Graph" THEN 224 ELSE 237]
        ELSE IF n = 0
          \* the loop body never ran: h is unbound
          THEN [NoTrain EXCEPT !.raised = "UnboundLocalError",
                               !.line = IF inp.mod_name = "Graph" THEN 231 ELSE 245]
        ELSE IF Len(inp.chunks[n].loss) = 0
          \* no epoch was run: h.epoch is empty
          THEN [NoTrain EXCEPT !.raised = "IndexError",
                               !.line = IF inp.mod_name = "Graph" THEN 231 ELSE 245]
        ELSE [raised |-> "none", line |-> 0,
              loss |-> ConcatHistory(inp.chunks, "loss"),
              \* lines 230 and 244 read h.history[metric] again
              val_loss |-> ConcatHistory(inp.chunks, "loss"),
              iter |-> (Len(inp.chunks[n].loss) - 1) * lenData]

InitTrain ==
    /\ trainIn = [mod_name |-> "none", chunks |-> <<>>, extraData |-> 0, fitOk |-> TRUE]
    /\ trainOut = NoTrain

\* train(model, data, data_val), once
TrainCall ==
    /\ trainIn.mod_name = "none"
    /\ \E inp \in TrainInputs :
        /\ trainIn' = inp
        /\ trainOut' = Train(inp)
    /\ UNCHANGED notTrain

\* the exception types train can raise ("none": it returns)
TrainRaises == {Train(inp).raised : inp \in TrainInputs}

(***************************************************************************)
(* fit and the model records (keras_backend.py)                            *)
(***************************************************************************)
Fits == 1..NFits
NoRecord == [exists |-> FALSE, trained |-> 0, error |-> 0]
\* `except Exception` catches every exception type of the model but this one
IsException(type) == type # "KeyboardInterrupt"

\* db.insert(full_json): a new document, with 'trained': 0 and no 'error' key
\* (error = 0 stands for the absent key)
DbInsert(recs, id) ==
    [recs EXCEPT ![id] = [exists |-> TRUE, trained |-> 0, error |-> 0]]
\* db.update({"_id": id}, {'$set': {'trained': 1, ...}})
DbSetTrained(recs, id) == [recs EXCEPT ![id].trained = 1]
\* db.update({"_id": id}, {'$set': {'error': 1}})
DbSetError(recs, id) == [recs EXCEPT ![id].error = 1]

InitFit ==
    /\ records = [f \in Fits |-> NoRecord]
    /\ fitPc = [f \in Fits |-> "idle"]
    /\ fitFirst = [f \in Fits |-> NoExc]
    /\ fitOut = [f \in Fits |-> NoExc]
    /\ fitReturned = [f \in Fits |-> FALSE]

\* an exception raised at `line` inside the try of lines 294-311: control goes
\* to the handler of line 313 when it is an Exception, out of fit otherwise
FitRaiseInTry(f, type, line) ==
    /\ fitFirst' = [fitFirst EXCEPT ![f] = Raise(type, line)]
    /\ IF IsException(type)
         THEN /\ fitPc' = [fitPc EXCEPT ![f] = "l314"]
              /\ fitOut' = fitOut
         ELSE /\ fitPc' = [fitPc EXCEPT ![f] = "done"]
              /\ fitOut' = [fitOut EXCEPT ![f] = Raise(type, line)]

\* lines 270-292: hashes, full_json, mod_id = db.insert(full_json)
FitStart(f) ==
    /\ fitPc[f] = "idle"
    /\ \E insertOk \in BOOLEAN :
        IF insertOk
          THEN /\ records' = DbInsert(records, f)
               /\ fitPc' = [fitPc EXCEPT ![f] = "l295"]
               /\ fitOut' = fitOut
          ELSE /\ records' = records
               /\ fitPc' = [fitPc EXCEPT ![f] = "done"]
               /\ fitOut' = [fitOut EXCEPT ![f] = Raise("Exception", 292)]
    /\ UNCHANGED <<fitFirst, fitReturned>>
    /\ UNCHANGED notFit

\* lines 295-297: results, model = train(...)
FitTrain(f) ==
    /\ fitPc[f] = "l295"
    /\ \E raised \in TrainRaises \cup {"KeyboardInterrupt"} :
        IF raised = "none"
          THEN /\ fitPc' = [fitPc EXCEPT ![f] = "l298"]
               /\ UNCHANGED <<fitFirst, fitOut>>
          ELSE FitRaiseInTry(f, raised, 295)
    /\ UNCHANGED <<records, fitReturned>>
    /\ UNCHANGED notFit

\* lines 298-306: res_dict, db.update({"_id": mod_id}, {'$set': res_dict})
FitUpdate(f) ==
    /\ fitPc[f] = "l298"
    /\ \E raised \in {"none", "Exception", "KeyboardInterrupt"} :
        IF raised = "none"
          THEN /\ records' = DbSetTrained(records, f)
               /\ fitPc' = [fitPc EXCEPT ![f] = "l308"]
               /\ UNCHANGED <<fitFirst, fitOut>>
          ELSE /\ records' = records
               /\ FitRaiseInTry(f, raised, 306)
    /\ UNCHANGED fitReturned
    /\ UNCHANGED notFit

\* lines 308-311 and 316: model.save_weights(...), then return results
FitSave(f) ==
    /\ fitPc[f] = "l308"
    /\ \E raised \in {"none", "Exception", "KeyboardInterrupt"} :
        IF raised = "none"
          THEN /\ fitPc' = [fitPc EXCEPT ![f] = "done"]
               /\ fitReturned' = [fitReturned EXCEPT ![f] = TRUE]
               /\ UNCHANGED <<fitFirst, fitOut>>
          ELSE /\ fitReturned' = fitReturned
               /\ FitRaiseInTry(f, raised, 308)
    /\ UNCHANGED records
    /\ UNCHANGED notFit

\* mutant of FitHandler: the handler re-raises without marking the record
FitHandler_NoFlag(f) ==
    /\ fitPc[f] = "l314"
    /\ fitOut' = [fitOut EXCEPT ![f] = fitFirst[f]]
    /\ fitPc' = [fitPc EXCEPT ![f] = "done"]
    /\ UNCHANGED <<records, fitFirst, fitReturned>>
    /\ UNCHANGED notFit

\* lines 313-315: db.update({"_id": mod_id}, {'$set': {'error': 1}}); raise
FitHandler(f) ==
    /\ fitPc[f] = "l314"
    /\ \E raised \in {"none", "Exception", "KeyboardInterrupt"} :
        IF raised = "none"
          THEN /\ records' = DbSetError(records, f)
               /\ fitOut' = [fitOut EXCEPT ![f] = fitFirst[f]]
          ELSE /\ records' = records
               /\ fitOut' = [fitOut EXCEPT ![f] = Raise(raised, 314)]
    /\ fitPc' = [fitPc EXCEPT ![f] = "done"]
    /\ UNCHANGED <<fitFirst, fitReturned>>
    /\ UNCHANGED notFit
FitStep ==
    \E f \in Fits :
        \/ FitStart(f)
        \/ FitTrain(f)
        \/ FitUpdate(f)
        \/ FitSave(f)
        \/ FitHandler(f)


(***************************************************************************)
(* sliced (appcom/utils.py)                                                *)
(***************************************************************************)
\* nbKeys: the number of keys of data (0 or 1 here); n: len(data[first])
SlicedInputs ==
    [nbKeys : {0, 1}, n : 0..MaxLen,
     nb_train : -1..MaxNb, nb_test : -1..MaxNb, offset : -1..MaxNb]
NoSliced == [raised |-> "none", line |-> 0, beg |-> 0, endt |-> 0, endv |-> 0]

\* mutant of SlicedAssert: the comparison of the assert is not strict
SlicedAssert_NotStrict(n, nb_train, nb_test, offset) ==
    n >= nb_train + nb_test + offset

\* line 29: the condition of the assert
SlicedAssert(n, nb_train, nb_test, offset) ==
    n > nb_train + nb_test + offset

\* lines 26-37
Sliced(inp) ==
    IF inp.nbKeys = 0
      \* the for loop of line 26 binds nothing: first is unbound at line 29
      THEN [NoSliced EXCEPT !.raised = "UnboundLocalError", !.line = 29]
    ELSE IF ~SlicedAssert(inp.n, inp.nb_train, inp.nb_test, inp.offset)
      THEN [NoSliced EXCEPT !.raised = "AssertionError", !.line = 29]
    ELSE LET beg == inp.offset - inp.n
             endt == beg + inp.nb_train
             endv == endt + inp.nb_test
         IN  [raised |-> "none", line |-> 0, beg |-> beg, endt |-> endt, endv |-> endv]

InitSliced ==
    /\ slicedIn = [nbKeys |-> 0, n |-> 0, nb_train |-> 0, nb_test |-> 0, offset |-> 0]
    /\ slicedOut = [NoSliced EXCEPT !.raised = "not called"]

\* sliced(data, nb_train, nb_test, offset), once
SlicedCall ==
    /\ slicedOut.raised = "not called"
    /\ \E inp \in SlicedInputs :
        /\ slicedIn' = inp
        /\ slicedOut' = Sliced(inp)
    /\ UNCHANGED notSliced

(***************************************************************************)
(* The database configuration bootstrap (dbbackend/__init__.py)            *)
(***************************************************************************)
\* the keys the module writes (lines 41-46)
SavedKeys == {"db_engine", "host_adress", "host_port", "db_name",
              "models_collection", "generators_collection"}
\* the keys a file can hold here: those, the two the module reads instead at
\* lines 37-38, and one it knows nothing about
FileKeys == SavedKeys \cup {"_models_collection", "_generators_collection", "comment"}
\* the value a user gives to key k (any JSON value the module does not default to)
UserValue(k) == IF k = "db_engine" THEN "sqlite" ELSE "user:" \o k
NoFile == [exists |-> FALSE, content |-> [k \in FileKeys |-> "absent"]]
NoSettings == [k \in SavedKeys |-> "unset"]

\* _config.get(key, default)
Get(content, key, default) == IF content[key] = "absent" THEN default ELSE content[key]

\* lines 17-25: the defaults
DefaultSettings(test) ==
    [k \in SavedKeys |->
        CASE k = "db_engine" -> "mongodb"
          [] k = "host_adress" -> IF test THEN "127.0.0.1" ELSE "mongo_m"
          [] k = "host_port" -> "27017"
          [] k = "db_name" -> "modelization"
          [] k = "models_collection" -> "models"
          [] k = "generators_collection" -> "generators"]

\* lines 31-38: the settings read from an existing file
SettingsFromFile(content) ==
    [k \in SavedKeys |->
        CASE k = "db_engine" -> Get(content, "db_engine", "mongodb")
          [] k = "host_adress" -> Get(content, "host_adress", "mongo_m")
          [] k = "host_port" -> Get(content, "host_port", "27017")
          [] k = "db_name" -> Get(content, "db_name", "modelization")
          [] k = "models_collection" -> Get(content, "_models_collection", "models")
          [] k = "generators_collection" -> Get(content, "_generators_collection", "models")]

\* mutant of ConfigToSave: the two collections are saved under the keys that
\* lines 37-38 read
ConfigToSave_Underscored(settings) ==
    [k \in FileKeys |->
        CASE k \in {"db_engine", "host_adress", "host_port", "db_name"} -> settings[k]
          [] k = "_models_collection" -> settings["models_collection"]
          [] k = "_generators_collection" -> settings["generators_collection"]
          [] OTHER -> "absent"]

\* lines 41-46: the dict that is written to the file
ConfigToSave(settings) ==
    [k \in FileKeys |-> IF k \in SavedKeys THEN settings[k] ELSE "absent"]

InitDb ==
    /\ cfgFile = NoFile
    /\ testMode = FALSE
    /\ dbState = "unloaded"
    /\ dbSettings = NoSettings

\* lines 17-55: a process imports alp.dbbackend
DbLoad ==
    /\ dbState = "unloaded"
    /\ LET settings == IF cfgFile.exists THEN SettingsFromFile(cfgFile.content)
                       ELSE DefaultSettings(testMode)
       IN  IF settings["db_engine"] # "mongodb"
             \* the assert of line 33 fails; nothing is written
             THEN /\ dbState' = "failed"
                  /\ dbSettings' = [NoSettings EXCEPT !["db_engine"] = settings["db_engine"]]
                  /\ cfgFile' = cfgFile
             ELSE /\ dbSettings' = settings
                  /\ cfgFile' = [exists |-> TRUE, content |-> ConfigToSave(settings)]
                  \* line 53: the import of the backend succeeds or raises
                  /\ \E importOk \in BOOLEAN :
                        dbState' = IF importOk THEN "loaded" ELSE "failed"
    /\ UNCHANGED testMode
    /\ UNCHANGED notDb

\* the process ends
DbExit ==
    /\ dbState # "unloaded"
    /\ dbState' = "unloaded"
    /\ dbSettings' = NoSettings
    /\ UNCHANGED <<cfgFile, testMode>>
    /\ UNCHANGED notDb

\* between two runs, someone writes, changes or removes a key of the file, or
\* removes the file
DbEditFile ==
    /\ dbState = "unloaded"
    /\ \/ \E k \in FileKeys, v \in {"absent", "mongodb", "user"} :
            /\ v = "mongodb" => k = "db_engine"
            /\ cfgFile' = [exists |-> TRUE,
                           content |-> [cfgFile.content EXCEPT ![k] =
                                            IF v = "user" THEN UserValue(k) ELSE v]]
       \/ cfgFile' = NoFile
    /\ UNCHANGED <<testMode, dbState, dbSettings>>
    /\ UNCHANGED notDb

\* the environment of the next process sets or unsets TEST_MODE
DbSetTestMode ==
    /\ dbState = "unloaded"
    /\ testMode' = ~testMode
    /\ UNCHANGED <<cfgFile, dbState, dbSettings>>
    /\ UNCHANGED notDb

(***************************************************************************)
(* The command line application (cli.py), as click runs it                 *)
(***************************************************************************)
Tokens == {"--verbose", "service", "status", "update", "pull",
           "start", "restart", "stop", "rm", "remove", "cfg.json", "missing.json"}
ArgLists == SeqsUpTo(Tokens, 0, MaxArgs)
\* the keys build_commands reads of the config
ConfigKeys == {"broker", "result_db", "model_gen_db", "workers", "controlers",
               "base_volumes"}
\* a config: the keys it holds and the lengths of its workers and controlers
Configs == [keys : SUBSET ConfigKeys, nWorkers : {0, 1}, nControlers : {0, 1}]
DockerActions == {"run", "stop", "restart", "rm"}
NoConfig == [keys |-> {}, nWorkers |-> 0, nControlers |-> 0]

\* exit_code is that of click's runner (-1: not run by click); popen counts
\* the subprocesses started; commands tells whether build_commands returned
NoCli == [exit_code |-> -1, raised |-> "none", line |-> 0, popen |-> 0,
          commands |-> FALSE]
Exit(code) == [NoCli EXCEPT !.exit_code = code]
Uncaught(type, line) == [NoCli EXCEPT !.exit_code = 1, !.raised = type, !.line = line]
Raised(type, line) == [NoCli EXCEPT !.raised = type, !.line = line]

IsOption(tok) == tok = "--verbose"
PathExists(tok) == tok = "cfg.json"

\* lines 98-99: the options the group main declares
MainOptions == {}
\* lines 118 and 139-158: the commands registered on main
MainCommands == {"service"}
\* lines 119-120: the parameters click passes to the callback, by keyword
ServiceParams == {"action", "config"}

\* mutant of ServiceSignature: the callback also takes config
ServiceSignature_WithConfig == {"action", "config"}

\* line 121: the parameters of service
ServiceSignature == {"action"}

\* the names bound at module level (lines 17-22 and the defs)
ModuleNames == {"sys", "click", "os", "json", "subprocess", "_alp_dir",
                "parse_cont", "build_commands", "action_config", "main", "service"}
\* the names bound in parse_cont (lines 25-26 and 46)
ParseContNames == {"container", "action", "volumes", "links", "container_command",
                   "option"}
\* the names bound in build_commands (lines 57-66, 78-84)
BuildCommandsNames == {"config", "action", "broker", "results_db", "model_gen_db",
                       "workers", "controlers", "base_volumes", "volume", "links",
                       "broker_command", "r_db_command", "m_g_db_command",
                       "workers_commands", "worker", "controlers_commands",
                       "controler", "all_commands"}
Resolves(name, locals) == name \in locals \cup ModuleNames
\* line 57: the parameters of build_commands; line 89: the arguments it is given
BuildCommandsParams == <<"config", "action">>
ActionConfigPasses == <<"config">>

\* lines 25-54: parse_cont reads the name containers first
ParseCont(action) ==
    IF ~Resolves("containers", ParseContNames) THEN Raised("NameError", 27)
    ELSE IF action = "run" /\ ~Resolves("v", ParseContNames) THEN Raised("NameError", 38)
    ELSE NoCli

\* lines 57-85: the command list is complete when line 85 is reached
BuildCommands(config, action) ==
    CASE "broker" \notin config.keys -> Raised("KeyError", 58)
      [] "result_db" \notin config.keys -> Raised("KeyError", 59)
      [] "model_gen_db" \notin config.keys -> Raised("KeyError", 60)
      [] "workers" \notin config.keys -> Raised("KeyError", 61)
      [] "controlers" \notin config.keys -> Raised("KeyError", 62)
      [] "base_volumes" \notin config.keys -> Raised("KeyError", 65)
      [] ~Resolves("models_gen_db", BuildCommandsNames) -> Raised("NameError", 67)
      [] ParseCont(action).raised # "none" -> ParseCont(action)
      [] config.nControlers > 0 /\ ~Resolves("base_columes", BuildCommandsNames)
            -> Raised("NameError", 80)
      [] OTHER -> [NoCli EXCEPT !.commands = TRUE]

\* lines 88-95: one subprocess per command of the list
ActionConfig(config, action) ==
    IF Len(ActionConfigPasses) # Len(BuildCommandsParams)
      THEN Raised("TypeError", 89)
    ELSE LET built == BuildCommands(config, action)
         IN  IF built.raised # "none" THEN built
             ELSE [built EXCEPT !.popen = 3 + config.nWorkers + config.nControlers]

\* lines 121-136: service is called with the keywords of ServiceParams
Service(action, configPath) ==
    IF ~(ServiceParams \subseteq ServiceSignature)
      THEN Uncaught("TypeError", 121)
    \* line 123 reads config, a local of service unless it is a parameter
    ELSE IF "config" \notin ServiceSignature
      THEN Uncaught("UnboundLocalError", 123)
    \* line 128: json.loads of the path itself
    ELSE Uncaught("ValueError", 128)

\* the arguments that follow the command name service
ServiceInvoke(rest) ==
    IF \E i \in 1..Len(rest) : IsOption(rest[i]) THEN Exit(2)
    ELSE IF Len(rest) # 2 THEN Exit(2)
    ELSE IF ~PathExists(rest[2]) THEN Exit(2)
    ELSE Service(rest[1], rest[2])

\* the group: its options, then the command name
MainInvoke(args) ==
    IF args = <<>> THEN Exit(0)
    ELSE IF IsOption(Head(args)) /\ Head(args) \notin MainOptions THEN Exit(2)
    ELSE IF Head(args) \notin MainCommands THEN Exit(2)
    ELSE ServiceInvoke(Tail(args))

InitCli ==
    /\ cliCall = [fn |-> "none", args |-> <<>>, config |-> NoConfig, action |-> "none"]
    /\ cliOut = NoCli

\* CliRunner().invoke(main, args), once
CliInvoke ==
    /\ cliCall.fn = "none"
    /\ \E args \in ArgLists :
        /\ cliCall' = [fn |-> "main", args |-> args, config |-> NoConfig,
                       action |-> "none"]
        /\ cliOut' = MainInvoke(args)
    /\ UNCHANGED notCli

\* action_config(config, action), called directly
ActionConfigCall ==
    /\ cliCall.fn = "none"
    /\ \E config \in Configs, action \in DockerActions :
        /\ cliCall' = [fn |-> "action_config", args |-> <<>>, config |-> config,
                       action |-> action]
        /\ cliOut' = ActionConfig(config, action)
    /\ UNCHANGED notCli

\* build_commands(config, action), called directly
BuildCommandsCall ==
    /\ cliCall.fn = "none"
    /\ \E config \in Configs, action \in DockerActions :
        /\ cliCall' = [fn |-> "build_commands", args |-> <<>>, config |-> config,
                       action |-> action]
        /\ cliOut' = BuildCommands(config, action)
    /\ UNCHANGED notCli

(***************************************************************************)
(* Specifications                                                          *)
(***************************************************************************)
Init == InitPredict /\ InitTrain /\ InitFit /\ InitSliced /\ InitDb /\ InitCli

NextPredict == PredictStep
NextTrain == TrainCall
NextFit == FitStep
NextSliced == SlicedCall
NextDb == DbLoad \/ DbExit \/ DbEditFile \/ DbSetTestMode
NextCli == CliInvoke \/ ActionConfigCall \/ BuildCommandsCall
Next == NextPredict \/ NextTrain \/ NextFit \/ NextSliced \/ NextDb \/ NextCli

SpecPredict == Init /\ [][NextPredict]_vars
SpecTrain == Init /\ [][NextTrain]_vars
SpecFit == Init /\ [][NextFit]_vars
SpecSliced == Init /\ [][NextSliced]_vars
SpecDb == Init /\ [][NextDb]_vars
SpecCli == Init /\ [][NextCli]_vars
\* every subsystem at once
Spec == Init /\ [][Next]_vars

(***************************************************************************)
(* Properties of predict and COMPILED_MODELS                               *)
(***************************************************************************)
\* the lines of predict before the dispatch of line 360 that can raise
EarlyLines == {336, 337, 343, 346, 351, 354}
Unsupported(p) == class_name[p] \notin SupportedNames
Complete(e) == e.present /\ e.pred # 0 /\ e.model # 0
\* a cache-miss call that has got past line 354
PastCompile(p) ==
    /\ path[p] = "miss"
    /\ \/ pc[p] \in {"l355", "l356", "l357", "l360"}
       \/ pc[p] = "done" /\ exc[p].line \notin EarlyLines

\* C2 as stated: a predict call whose model has an unsupported class_name ends
\* with NotImplementedError, on either path, and never calls the prediction
\* function.
C2_AlwaysNotImplemented ==
    \A p \in Procs :
        (pc[p] = "done" /\ Unsupported(p)) =>
            (exc[p].type = "NotImplementedError" /\ called[p] = 0)

\* C2 amended: a predict call whose model has an unsupported class_name never
\* calls the prediction function and never returns; it raises
\* NotImplementedError (line 374) unless a line before the dispatch raised
\* first (the KeyError of the pop of 'optimizer' at line 343, a failure while
\* building at 346-354, or a KeyError reading a half-written entry at 336-337).
C2_NotImplementedUnlessEarlier ==
    \A p \in Procs :
        (pc[p] = "done" /\ Unsupported(p)) =>
            /\ called[p] = 0
            /\ exc[p].line \in EarlyLines \cup {374}
            /\ exc[p].line = 374 <=> exc[p].type = "NotImplementedError"

\* C2 witness: an unsupported model has raised NotImplementedError on the
\* cache-miss path and another on the cache-hit path.
C2_Witness ==
    \E p, q \in Procs :
        /\ pc[p] = "done" /\ pc[q] = "done"
        /\ Unsupported(p) /\ Unsupported(q)
        /\ path[p] = "miss" /\ path[q] = "hit"
        /\ exc[p].type = "NotImplementedError"
        /\ exc[q].type = "NotImplementedError"

\* C3: a predict call that finds its mod_id in COMPILED_MODELS takes the hit
\* branch; none of its steps writes COMPILED_MODELS, builds a model, loads
\* weights or builds a prediction function; what it binds to pred_function and
\* model_k is what the entry holds, and the function it calls is that one.
C3_HitUsesStored ==
    [][\A p \in Procs :
         /\ (pc[p] = "idle" /\ pc'[p] # "idle" /\ COMPILED_MODELS[mod_id'[p]].present)
              => (path'[p] = "hit" /\ did'[p] = {}
                  /\ COMPILED_MODELS' = COMPILED_MODELS)
         /\ (path[p] = "hit" /\ pc'[p] # pc[p])
              => /\ COMPILED_MODELS' = COMPILED_MODELS
                 /\ did'[p] = {}
                 /\ (pc'[p] = "l337")
                      => pred_function'[p] = COMPILED_MODELS[mod_id[p]].pred
                 /\ (pc[p] = "l337" /\ pc'[p] = "l360")
                      => model_k'[p] = COMPILED_MODELS[mod_id[p]].model
                 /\ (pc[p] = "l360" /\ called'[p] # 0)
                      => called'[p] = pred_function[p]
      ]_vars

\* C3 witness: a call on the hit branch has called a prediction function that
\* another call built.
C3_Witness ==
    \E p \in Procs :
        /\ path[p] = "hit" /\ pc[p] = "done"
        /\ called[p] \notin {0, p}
        /\ model_k[p] \notin {0, p}
        /\ did[p] = {}

\* C4 as stated: a key of COMPILED_MODELS stays a key, and an entry that holds
\* a prediction function and a model keeps exactly those.
C4_EntriesNeverReplaced ==
    [][\A m \in ModIds :
         COMPILED_MODELS[m].present =>
            /\ COMPILED_MODELS'[m].present
            /\ Complete(COMPILED_MODELS[m]) => COMPILED_MODELS'[m] = COMPILED_MODELS[m]
      ]_vars

\* C4 amended: no step removes a key of COMPILED_MODELS, so the number of
\* entries never decreases; an entry changes only by lines 355-357 of a call
\* that took the cache-miss branch for that mod_id, which happens to a stored
\* entry when two cache-miss calls for the same mod_id overlap.
C4_NoEviction ==
    [][/\ \A m \in ModIds :
            COMPILED_MODELS[m].present =>
               /\ COMPILED_MODELS'[m].present
               /\ COMPILED_MODELS'[m] # COMPILED_MODELS[m] =>
                    \E p \in Procs :
                        /\ mod_id[p] = m /\ path[p] = "miss"
                        /\ pc[p] \in {"l355", "l356", "l357"}
                        /\ pc'[p] # pc[p]
       /\ Cardinality({m \in ModIds : COMPILED_MODELS'[m].present})
            >= Cardinality({m \in ModIds : COMPILED_MODELS[m].present})
      ]_vars

\* C4 witness: a call has stored its entry completely and the entry now holds
\* the prediction function of another call.
C4_Witness ==
    \E p \in Procs :
        /\ path[p] = "miss" /\ pc[p] \in {"l360", "done"} /\ "store" \in did[p]
        /\ COMPILED_MODELS[mod_id[p]].present
        /\ COMPILED_MODELS[mod_id[p]].pred \notin {0, p}

\* C5: nothing guards the cache-miss branch: every call that took it and got
\* past line 354 has built a model, loaded weights and built a prediction
\* function of its own, whatever other calls did meanwhile, so two such calls
\* for one mod_id hold two different functions.
C5_EveryMissBuilds ==
    \A p \in Procs :
        PastCompile(p) =>
            /\ {"build", "load", "compile"} \subseteq did[p]
            /\ pred_function[p] = p /\ model_k[p] = p
            /\ \A q \in Procs \ {p} :
                   (PastCompile(q) /\ mod_id[q] = mod_id[p])
                       => pred_function[q] # pred_function[p]

\* C5 witness: two calls for the same mod_id both took the cache-miss branch
\* and both built and compiled.
C5_Witness ==
    \E p, q \in Procs :
        /\ p # q /\ mod_id[p] = mod_id[q]
        /\ path[p] = "miss" /\ path[q] = "miss"
        /\ "compile" \in did[p] /\ "compile" \in did[q]
        /\ "build" \in did[p] /\ "build" \in did[q]

(***************************************************************************)
(* Properties of fit                                                       *)
(***************************************************************************)
FitFailedInTry(f) == fitPc[f] = "done" /\ fitFirst[f] # NoExc

\* C1 as stated: when a step of fit after the insert raises, the record of the
\* invocation gets error = 1, the same exception leaves fit and fit returns
\* no result.
C1_AlwaysFlagged ==
    \A f \in Fits :
        FitFailedInTry(f) =>
            /\ records[f].error = 1
            /\ fitOut[f] = fitFirst[f]
            /\ ~fitReturned[f]

\* C1 amended: when a step of fit after the insert raises, fit returns no
\* result and an exception leaves it.  If the exception raised is an Exception,
\* line 314 runs: when that update succeeds the record has error = 1 and the
\* same exception leaves fit; when that update raises, its own exception leaves
\* fit and the record has no error flag.  An exception that is no Exception
\* (KeyboardInterrupt) leaves fit as it is and the record has no error flag.
C1_FlaggedWhenHandled ==
    \A f \in Fits :
        FitFailedInTry(f) =>
            /\ ~fitReturned[f]
            /\ fitOut[f] # NoExc
            /\ records[f].exists
            /\ IF IsException(fitFirst[f].type) /\ fitOut[f].line # 314
                 THEN records[f].error = 1 /\ fitOut[f] = fitFirst[f]
                 ELSE records[f].error = 0
            /\ ~IsException(fitFirst[f].type) => fitOut[f] = fitFirst[f]
            /\ fitOut[f].line = 314 => IsException(fitFirst[f].type)

\* C1 witness: save_weights raised after the record was marked trained; the
\* record got the error flag and the exception of line 308 left fit.
C1_Witness ==
    \E f \in Fits :
        /\ FitFailedInTry(f)
        /\ fitFirst[f].line = 308
        /\ fitOut[f] = fitFirst[f]
        /\ records[f].error = 1

(***************************************************************************)
(* Properties of the command line application                              *)
(***************************************************************************)
\* the invocations of tests/test_alp.py
TestInvocations ==
    {<<"--verbose", cmd, "cfg.json">> : cmd \in {"status", "update", "pull"}}
        \cup {<<"--verbose", "service", cm, "cfg.json">> :
                  cm \in {"start", "restart", "stop", "rm"}}
\* service <action> <config_path>, with the path of an existing file
ServiceInvocation(args) ==
    /\ Len(args) = 3
    /\ args[1] = "service"
    /\ ~IsOption(args[2])
    /\ PathExists(args[3])

\* C6: every invocation of main made by the tests exits with code 0.
C6_TestsExitZero ==
    (cliCall.fn = "main" /\ cliCall.args \in TestInvocations)
        => cliOut.exit_code = 0

FileHoldsSettings(file, settings) ==
    /\ file.exists
    /\ \A k \in FileKeys : file.content[k] # "absent" <=> k \in SavedKeys
    /\ \A k \in SavedKeys : file.content[k] = settings[k]

\* C8: a load of alp.dbbackend that succeeds leaves alpdb.json existing and
\* holding exactly the six saved keys, each with the value of the module's
\* setting, whether or not the file existed and whatever it held.
C8_FileHoldsSettings ==
    [][(dbState = "unloaded" /\ dbState' = "loaded") =>
          /\ FileHoldsSettings(cfgFile', dbSettings')
          /\ \A k \in SavedKeys : dbSettings'[k] # "unset"]_vars

\* C8 witness: the module has loaded from a file that held a user's host
\* address, and the file holds the settings in use.
C8_Witness ==
    /\ dbState = "loaded"
    /\ dbSettings["host_adress"] = UserValue("host_adress")
    /\ FileHoldsSettings(cfgFile, dbSettings)

(***************************************************************************)
(* Properties of train                                                     *)
(***************************************************************************)
\* C9: when train returns, results['metrics']['loss'] is the training history
\* and results['metrics']['val_loss'] the validation history, each
\* concatenated over the chunks in the order they were fitted.
C9_HistoriesReturned ==
    (trainIn.mod_name # "none" /\ trainOut.raised = "none") =>
        /\ trainOut.loss = ConcatHistory(trainIn.chunks, "loss")
        /\ trainOut.val_loss = ConcatHistory(trainIn.chunks, "val_loss")

(***************************************************************************)
(* Properties of sliced                                                    *)
(***************************************************************************)
SlicedCalled == slicedOut.raised # "not called"
SlicedNonNegative ==
    slicedIn.nbKeys = 1 /\ slicedIn.nb_train >= 0 /\ slicedIn.nb_test >= 0
        /\ slicedIn.offset >= 0

\* C10: for non-negative nb_train, nb_test and offset, sliced returns only
\* when n > nb_train + nb_test + offset, and then beg = offset - n,
\* endt - beg = nb_train, endv - endt = nb_test and beg <= endt <= endv < 0;
\* otherwise it raises AssertionError.
C10_SlicedIndexes ==
    (SlicedCalled /\ SlicedNonNegative) =>
        LET total == slicedIn.nb_train + slicedIn.nb_test + slicedIn.offset
        IN  IF slicedIn.n > total
              THEN /\ slicedOut.raised = "none"
                   /\ slicedOut.beg = slicedIn.offset - slicedIn.n
                   /\ slicedOut.endt - slicedOut.beg = slicedIn.nb_train
                   /\ slicedOut.endv - slicedOut.endt = slicedIn.nb_test
                   /\ slicedOut.beg <= slicedOut.endt
                   /\ slicedOut.endt <= slicedOut.endv
                   /\ slicedOut.endv < 0
              ELSE slicedOut.raised = "AssertionError"

\* C10 witness: sliced has returned for positive nb_train, nb_test and offset.
C10_Witness ==
    /\ SlicedCalled /\ SlicedNonNegative
    /\ slicedIn.nb_train > 0 /\ slicedIn.nb_test > 0 /\ slicedIn.offset > 0
    /\ slicedOut.raised = "none"
    /\ slicedOut.endv = -1

(***************************************************************************)
(* Properties of action_config                                             *)
(***************************************************************************)
\* lines 82-84: the length of all_commands: broker, result database, model
\* database, then one command per worker and per controler
NbCommands(config) == 3 + config.nWorkers + config.nControlers

\* C11: action_config, given a config that holds every key build_commands
\* reads, runs every command of the list, one subprocess per command, and is
\* stopped by no exception: when it ends it has started as many subprocesses
\* as the list has commands.
C11_RunsEveryCommand ==
    (cliCall.fn = "action_config" /\ cliCall.config.keys = ConfigKeys) =>
        /\ cliOut.raised = "none"
        /\ cliOut.popen = NbCommands(cliCall.config)

(***************************************************************************)
(* Properties of the model records                                         *)
(***************************************************************************)
\* C12: no model record ever has both trained = 1 and error = 1.
C12_NeverTrainedAndError ==
    \A f \in Fits : ~(records[f].trained = 1 /\ records[f].error = 1)

====
